---- MODULE Spec2Model ----
(***************************************************************************)
(* Model of the CS2 inventory exporter's API route (POST /api/get-inventory) *)
(* in its four revisions: the two handlers of src/app/api/get-inventory/    *)
(* route.js and the two handlers of src/unnamed/part_000.                   *)
(*                                                                         *)
(* Strings are sequences of pieces.  A piece is either one of the special   *)
(* characters "/", " ", "\"", ",", "\n" or a word (a run of other            *)
(* characters) that the code never looks inside, except for the 17-digit   *)
(* test, for which every word has a length and a digits-only flag.          *)
(***************************************************************************)
EXTENDS Integers, Sequences, FiniteSets, TLC

VARIABLES
    variant,        \* which revision of the handler is deployed
    keyConfigured,  \* STEAM_API_KEY is set
    body,           \* the request body as request.json() will see it
    pc,             \* position of the handler: start, alias_wait, inv_wait, done
    identifier,     \* const identifier = extractIdentifier(profileUrl)
    steamId,        \* let steamId
    calls,          \* the fetch() calls issued so far, in order
    response,       \* the response the handler returned, or NoResponse
    escaped,        \* an exception left the handler (the promise rejected)
    caught,         \* the text of the exception the catch block received
    vanityData,     \* what the alias lookup answered
    inventoryData,  \* what the inventory fetch answered
    itemsForCSV,    \* the rows given to convertToCSV, once it was called
    fin,            \* input of the pure function under check
    fout            \* its output

vars == <<variant, keyConfigured, body, pc, identifier, steamId, calls,
          response, escaped, caught, vanityData, inventoryData, itemsForCSV,
          fin, fout>>

\* ------------------------------------------------------------------ bounds
MaxSegs == 2        \* path segments of a request's reference
MaxExtractSegs == 4 \* path segments of a text given to the extractor alone
MaxAssets == 2      \* holdings in an upstream inventory body
MaxDescriptions == 2 \* descriptions given to the join alone
MaxRows == 2        \* rows given to the encoder alone

\* ------------------------------------------------------- strings and values
\* JavaScript values, tagged by type
Str(s) == [t |-> "string", s |-> s]
Num(n) == [t |-> "number", n |-> n]
Bool(b) == [t |-> "boolean", b |-> b]
JNull == [t |-> "null"]
JUndefined == [t |-> "undefined"]

IsString(v) == v.t = "string"

ID17 == "76561197960287930"
Origin == <<"https:", "/", "/", "example.com">>

\* number of characters of a word, and whether all of them are decimal digits
WordLen(w) ==
    CASE w = ID17 -> 17
      [] w = "7" -> 1
      [] w = "profiles" -> 8
      [] w = "id" -> 2
      [] w = "myalias" -> 7
      [] w = "https:" -> 6
      [] w = "example.com" -> 11
      [] OTHER -> 3

WordAllDigits(w) == w \in {ID17, "7", "765"}

RECURSIVE SumLen(_)
SumLen(s) == IF s = <<>> THEN 0 ELSE WordLen(Head(s)) + SumLen(Tail(s))

\* /^\d{16}$/
IsCanonicalSixteen(v) ==
    /\ IsString(v)
    /\ \A i \in 1..Len(v.s) : WordAllDigits(v.s[i])
    /\ SumLen(v.s) = 16

\* /^\d{17}$/.test(identifier): test() coerces its argument to a string, so
\* null becomes "null" and does not match.
IsCanonical(v) ==
    /\ IsString(v)
    /\ \A i \in 1..Len(v.s) : WordAllDigits(v.s[i])
    /\ SumLen(v.s) = 17

\* !v
Falsy(v) ==
    \/ v.t \in {"null", "undefined"}
    \/ v.t = "string" /\ v.s = <<>>
    \/ v.t = "number" /\ v.n = 0
    \/ v.t = "boolean" /\ ~v.b

\* '' + v and `${v}`: the text of a value
ToText(v) ==
    CASE v.t = "string" -> v.s
      [] v.t = "number" -> <<ToString(v.n)>>
      [] v.t = "boolean" -> IF v.b THEN <<"true">> ELSE <<"false">>
      [] v.t = "null" -> <<"null">>
      [] OTHER -> <<"undefined">>

\* ------------------------------------------------------------ string helpers
RECURSIVE TrimLeft(_)
TrimLeft(s) == IF s # <<>> /\ Head(s) = " " THEN TrimLeft(Tail(s)) ELSE s

RECURSIVE TrimRight(_)
TrimRight(s) ==
    IF s # <<>> /\ s[Len(s)] = " " THEN TrimRight(SubSeq(s, 1, Len(s) - 1)) ELSE s

\* String.prototype.trim
Trim(s) == TrimRight(TrimLeft(s))

\* .replace(/\/$/, ''): drops one trailing separator
DropTrailingSlash(s) ==
    IF s # <<>> /\ s[Len(s)] = "/" THEN SubSeq(s, 1, Len(s) - 1) ELSE s

\* String.prototype.split('/'): the segments between separators, empty ones kept
RECURSIVE SplitAcc(_, _, _)
SplitAcc(s, cur, acc) ==
    IF s = <<>> THEN Append(acc, cur)
    ELSE IF Head(s) = "/" THEN SplitAcc(Tail(s), <<>>, Append(acc, cur))
    ELSE SplitAcc(Tail(s), Append(cur, Head(s)), acc)

Split(s) == SplitAcc(s, <<>>, <<>>)

\* Array.prototype.indexOf on the segments, 0 when absent (1-based otherwise)
IndexOf(parts, word) ==
    IF \E i \in 1..Len(parts) : parts[i] = <<word>>
    THEN CHOOSE i \in 1..Len(parts) :
            /\ parts[i] = <<word>>
            /\ \A j \in 1..(i - 1) : parts[j] # <<word>>
    ELSE 0

\* .filter(part => part): the non-empty segments
NonEmpty(parts) == SelectSeq(parts, LAMBDA p : p # <<>>)

\* ------------------------------------------------------ extractIdentifier
\* The result of a call: a returned value, or a thrown exception with its text.
Return(v) == [thrown |-> FALSE, v |-> v]
Throw(msg) == [thrown |-> TRUE, msg |-> msg]

\* The marker-based extractor.  A reference that is not a string has no trim():
\* the TypeError is caught inside the function, which then returns null.
\* the marker-based extractor, were it to look for "id" before "profiles"
ExtractByMarkerIdFirst(url) ==
    IF ~IsString(url) THEN Return(JNull)
    ELSE LET parts == Split(DropTrailingSlash(Trim(url.s)))
             profilesIndex == IndexOf(parts, "profiles")
             idIndex == IndexOf(parts, "id")
         IN  IF idIndex # 0 /\ Len(parts) > idIndex
                 THEN Return(Str(parts[idIndex + 1]))
             ELSE IF profilesIndex # 0 /\ Len(parts) > profilesIndex
                 THEN Return(Str(parts[profilesIndex + 1]))
             ELSE Return(Str(parts[Len(parts)]))

ExtractByMarker(url) ==
    IF ~IsString(url) THEN Return(JNull)
    ELSE LET parts == Split(DropTrailingSlash(Trim(url.s)))
             profilesIndex == IndexOf(parts, "profiles")
             idIndex == IndexOf(parts, "id")
         IN  IF profilesIndex # 0 /\ Len(parts) > profilesIndex
                 THEN Return(Str(parts[profilesIndex + 1]))
             ELSE IF idIndex # 0 /\ Len(parts) > idIndex
                 THEN Return(Str(parts[idIndex + 1]))
             ELSE Return(Str(parts[Len(parts)]))

\* new URL(url) on the references of the model: it parses exactly when the
\* reference, with leading and trailing spaces stripped, starts with the origin
\* and the host (everything up to the first separator) holds no space.
HostEnd(rest) ==
    IF \E k \in 1..Len(rest) : rest[k] = "/"
    THEN (CHOOSE k \in 1..Len(rest) :
            rest[k] = "/" /\ \A j \in 1..(k - 1) : rest[j] # "/") - 1
    ELSE Len(rest)

UrlParses(s) ==
    LET t == Trim(s)
    IN  /\ Len(t) >= Len(Origin)
        /\ SubSeq(t, 1, Len(Origin)) = Origin
        /\ LET rest == SubSeq(t, Len(Origin) + 1, Len(t))
           IN  \A k \in 1..HostEnd(rest) : rest[k] # " "

\* urlObj.pathname: the part after the host, spaces percent-encoded
Pathname(s) ==
    LET t == Trim(s)
        rest == SubSeq(t, Len(Origin) + 1, Len(t))
        path == SubSeq(rest, HostEnd(rest) + 1, Len(rest))
    IN  IF path = <<>> THEN <<"/">>
        ELSE [k \in 1..Len(path) |-> IF path[k] = " " THEN "%20" ELSE path[k]]

\* The URL-based extractor.  For a reference that is not a string new URL()
\* throws, and url.split() in the catch block throws again, out of the function.
ExtractByUrl(url) ==
    IF ~IsString(url) THEN Throw(<<"url.split is not a function">>)
    ELSE IF UrlParses(url.s)
    THEN LET pathParts == NonEmpty(Split(Pathname(url.s)))
         IN  IF Len(pathParts) >= 2 THEN Return(Str(pathParts[2]))
             ELSE Return(JNull)
    ELSE LET parts == Split(url.s)
         IN  Return(Str(parts[Len(parts)]))

\* ------------------------------------------------------------- the revisions
\* RouteLegacy:   src/app/api/get-inventory/route.js lines 1-112
\* RouteSnapshot: src/app/api/get-inventory/route.js lines 115-260
\* PartSnapshot:  src/unnamed/part_000 lines 1-121
\* PartLegacy:    src/unnamed/part_000 lines 124-237
Variants == {"RouteLegacy", "RouteSnapshot", "PartSnapshot", "PartLegacy"}
SnapshotVariants == {"RouteSnapshot", "PartSnapshot"}
LegacyVariants == {"RouteLegacy", "PartLegacy"}

extractIdentifier(v, url) ==
    IF v = "RouteSnapshot" THEN ExtractByMarker(url) ELSE ExtractByUrl(url)

\* ---------------------------------------------------------------- requests
RECURSIVE SeqsUpTo(_, _)
SeqsUpTo(S, n) ==
    IF n = 0 THEN {<<>>}
    ELSE LET shorter == SeqsUpTo(S, n - 1)
         IN  shorter \cup {Append(q, x) : q \in {r \in shorter : Len(r) = n - 1}, x \in S}

\* The references of a request: up to MaxSegs segments joined by separators,
\* bare or behind an origin.
Segments ==
    {<<>>, <<"profiles">>, <<"id">>, <<"myalias">>, <<ID17>>, <<"7", ID17>>, <<ID17, " ">>}

RECURSIVE JoinSegments(_)
JoinSegments(path) ==
    IF path = <<>> THEN <<>>
    ELSE IF Len(path) = 1 THEN path[1]
    ELSE path[1] \o <<"/">> \o JoinSegments(Tail(path))

References ==
    LET texts == {JoinSegments(p) : p \in SeqsUpTo(Segments, MaxSegs)}
    IN  texts \cup {Origin \o <<"/">> \o t : t \in texts}

\* The inputs of the extractor taken alone: up to MaxExtractSegs segments joined
\* by separators, bare or behind an origin, with or without spaces around.
ExtractSegments == {<<>>, <<"profiles">>, <<"id">>, <<"myalias">>, <<ID17>>, <<" ">>}

ExtractorInputs ==
    LET texts == {JoinSegments(p) : p \in SeqsUpTo(ExtractSegments, MaxExtractSegs)}
        urls == texts \cup {Origin \o <<"/">> \o t : t \in texts}
    IN  {lead \o u \o trail : lead \in {<<>>, <<" ">>}, u \in urls, trail \in {<<>>, <<" ">>}}

\* ------------------------------------------------------------ convertToCSV
Q == "\""

RECURSIVE Join(_, _)
\* Array.prototype.join: the texts with sep between them
Join(texts, sep) ==
    IF texts = <<>> THEN <<>>
    ELSE IF Len(texts) = 1 THEN texts[1]
    ELSE texts[1] \o <<sep>> \o Join(Tail(texts), sep)

\* .replace(/"/, '""') without the g flag: only the first quote is doubled
RECURSIVE EscapeFirst(_)
EscapeFirst(s) ==
    IF s = <<>> THEN <<>>
    ELSE IF Head(s) = Q THEN <<Q, Q>> \o Tail(s)
    ELSE <<Head(s)>> \o EscapeFirst(Tail(s))

\* .replace(/"/g, '""'): every quote is doubled
RECURSIVE Escape(_)
Escape(s) ==
    IF s = <<>> THEN <<>>
    ELSE IF Head(s) = Q THEN <<Q, Q>> \o Escape(Tail(s))
    ELSE <<Head(s)>> \o Escape(Tail(s))

\* A row is a sequence of [k |-> column name, v |-> value], in insertion order.
\* Object.keys(row)
Keys(row) == [i \in 1..Len(row) |-> row[i].k]

\* row[header]: the value of the last property of that name, or undefined
Get(row, header) ==
    IF \E i \in 1..Len(row) : row[i].k = header
    THEN row[CHOOSE i \in 1..Len(row) :
                row[i].k = header /\ \A j \in (i + 1)..Len(row) : row[j].k # header].v
    ELSE JUndefined

\* the `values` array of one row: each field escaped and wrapped in quotes
CsvValues(headers, row) ==
    [i \in 1..Len(headers) |-> <<Q>> \o Escape(ToText(Get(row, headers[i]))) \o <<Q>>]

\* the fields of every line before they are joined: the headers as they are,
\* then the `values` of each row
CsvFields(data) ==
    IF data = <<>> THEN <<>>
    ELSE LET headers == Keys(data[1])
         IN  <<headers>> \o [i \in 1..Len(data) |-> CsvValues(headers, data[i])]

\* the `csvRows` array: the header line, then one line per row
CsvRows(data) ==
    [i \in 1..Len(CsvFields(data)) |-> Join(CsvFields(data)[i], ",")]

convertToCSV(data) ==
    IF data = <<>> THEN <<>> ELSE Join(CsvRows(data), "\n")

\* ------------------------------------------------------------------ the join
\* `${x.classid}_${x.instanceid}`
KeyOf(x) == ToText(x.classid) \o <<"_">> \o ToText(x.instanceid)

\* descriptionMap.get(key): a Map built from pairs keeps the last one of a key
HasDescription(descriptions, asset) ==
    \E i \in 1..Len(descriptions) : KeyOf(descriptions[i]) = KeyOf(asset)

Description(descriptions, asset) ==
    descriptions[CHOOSE i \in 1..Len(descriptions) :
        /\ KeyOf(descriptions[i]) = KeyOf(asset)
        /\ \A j \in (i + 1)..Len(descriptions) : KeyOf(descriptions[j]) # KeyOf(asset)]

Field(k, v) == [k |-> k, v |-> v]

\* the row of a holding without description, were the name defaulted like the type
DefaultRowPlain(asset) ==
    << Field(<<"Item_Name">>, Str(<<"Unknown">>)),
       Field(<<"Type">>, Str(<<"Unknown">>)),
       Field(<<"Tradable">>, Str(<<"No">>)),
       Field(<<"Marketable">>, Str(<<"No">>)),
       Field(<<"Class_ID">>, asset.classid),
       Field(<<"Instance_ID">>, asset.instanceid),
       Field(<<"Asset_ID">>, asset.assetid) >>

\* description is undefined: every description?.x is undefined
DefaultRow(asset) ==
    << Field(<<"Item_Name">>, Str(<<"Unknown Item">>)),
       Field(<<"Type">>, Str(<<"Unknown">>)),
       Field(<<"Tradable">>, Str(<<"No">>)),
       Field(<<"Marketable">>, Str(<<"No">>)),
       Field(<<"Class_ID">>, asset.classid),
       Field(<<"Instance_ID">>, asset.instanceid),
       Field(<<"Asset_ID">>, asset.assetid) >>

JoinedRow(asset, d) ==
    << Field(<<"Item_Name">>,
             IF Falsy(d.market_hash_name) THEN Str(<<"Unknown Item">>)
             ELSE d.market_hash_name),
       Field(<<"Type">>, IF Falsy(d.type) THEN Str(<<"Unknown">>) ELSE d.type),
       Field(<<"Tradable">>,
             IF Falsy(d.tradable) THEN Str(<<"No">>) ELSE Str(<<"Yes">>)),
       Field(<<"Marketable">>,
             IF Falsy(d.marketable) THEN Str(<<"No">>) ELSE Str(<<"Yes">>)),
       Field(<<"Class_ID">>, asset.classid),
       Field(<<"Instance_ID">>, asset.instanceid),
       Field(<<"Asset_ID">>, asset.assetid) >>

\* inventoryData.assets.map(asset => ...) of the snapshot revisions
SnapshotRows(assets, descriptions) ==
    [i \in 1..Len(assets) |->
        IF HasDescription(descriptions, assets[i])
        THEN JoinedRow(assets[i], Description(descriptions, assets[i]))
        ELSE DefaultRow(assets[i])]

\* items.map(item => ...) of the legacy revisions
LegacyRows(items) ==
    [i \in 1..Len(items) |->
        << Field(<<"Item_ID">>, items[i].id),
           Field(<<"Original_ID">>, items[i].original_id),
           Field(<<"Def_Index">>, items[i].defindex),
           Field(<<"Level">>, items[i].level),
           Field(<<"Quality">>, items[i].quality),
           Field(<<"Quantity">>, items[i].quantity) >>]

\* ---------------------------------------------------------------- responses
CS2_APP_ID == 730

Payload(status, kind, message, hasDetails, details, content, fileName) ==
    [status |-> status, kind |-> kind, message |-> message,
     hasDetails |-> hasDetails, errorDetails |-> details,
     content |-> content, fileName |-> fileName]

NoResponse == Payload(0, "none", <<>>, FALSE, <<>>, <<>>, <<>>)

\* NextResponse.json({ message }, { status })
JsonResponse(status, message) ==
    Payload(status, "json", message, FALSE, <<>>, <<>>, <<>>)

\* new Response(csvData, { status: 200, headers: ... })
Download(csvData, fileName) ==
    Payload(200, "csv", <<>>, FALSE, <<>>, csvData, fileName)

MsgNoKey == <<"Steam API key is not configured on the server.">>
MsgUrlRequired == <<"Profile URL is required.">>
MsgNoIdentifier == <<"Could not extract a valid identifier from the URL.">>
MsgInvalidFormat == <<"Invalid Steam profile URL format.">>
MsgNoSteamId == <<"Could not find a Steam ID for this profile URL.">>
MsgUnreadable ==
    <<"Could not read inventory data. It might be empty or there is a temporary Steam API issue.">>
MsgEmpty == <<"This inventory is empty.">>
MsgPrivateOfficial ==
    <<"Inventory is private or the profile is invalid. (Checked with official API)">>
MsgUnexpected == <<"An unexpected server error occurred.">>

\* the message of a fetch that did not answer with an ok status
MsgNotOk(v, status) ==
    CASE v = "RouteLegacy" -> <<"Failed to fetch from the official Steam API.">>
      [] v = "PartLegacy" ->
            <<"Failed to fetch from the official Steam API. Status: ", ToString(status)>>
      [] v = "PartSnapshot" ->
            <<"Inventory is private or profile is invalid. (Steam API returned an error)">>
      [] OTHER ->
            <<"Inventory is private or profile is invalid. Status: ", ToString(status)>>

\* the status given to a fetch that did not answer with an ok status
NotOkStatus(v, status) == IF v \in SnapshotVariants THEN 403 ELSE 500

\* the catch block: two revisions add errorDetails: error.message
CatchResponse(v, msg) ==
    IF v \in {"RouteSnapshot", "PartLegacy"}
    THEN Payload(500, "json", MsgUnexpected, TRUE, msg, <<>>, <<>>)
    ELSE JsonResponse(500, MsgUnexpected)

FileName(v, id) ==
    IF v \in SnapshotVariants
    THEN <<"cs2_inventory_">> \o ToText(id) \o <<".csv">>
    ELSE <<"cs2_inventory_basic_">> \o ToText(id) \o <<".csv">>

\* ------------------------------------------------------ external outcomes
\* What request.json() can give.
Bodies ==
    {[kind |-> "invalid", profileUrl |-> JUndefined],
     [kind |-> "null", profileUrl |-> JUndefined],
     [kind |-> "object", profileUrl |-> JUndefined],
     [kind |-> "object", profileUrl |-> JNull],
     [kind |-> "object", profileUrl |-> Num(123)],
     [kind |-> "object", profileUrl |-> Bool(TRUE)]}
    \cup {[kind |-> "object", profileUrl |-> Str(r)] : r \in References}

\* What the alias lookup can answer.
Vanity(kind, hasResponse, success, steamid) ==
    [kind |-> kind, hasResponse |-> hasResponse, success |-> success, steamid |-> steamid]

NoVanity == Vanity("none", FALSE, JUndefined, JUndefined)

AliasOutcomes ==
    {Vanity("network", FALSE, JUndefined, JUndefined),
     Vanity("notjson", FALSE, JUndefined, JUndefined),
     Vanity("json", FALSE, JUndefined, JUndefined),
     Vanity("json", TRUE, JUndefined, JUndefined),
     Vanity("json", TRUE, Num(42), JUndefined),
     Vanity("json", TRUE, Str(<<"1">>), Str(<<ID17>>)),
     Vanity("json", TRUE, Num(1), Str(<<ID17>>)),
     Vanity("json", TRUE, Num(1), Str(<<"765">>)),
     Vanity("json", TRUE, Num(1), JUndefined)}

\* What the inventory backend can answer.
Absent == [present |-> FALSE, list |-> <<>>]
Present(list) == [present |-> TRUE, list |-> list]

Asset(c, i, a) == [classid |-> Str(<<c>>), instanceid |-> Str(<<i>>), assetid |-> Str(<<a>>)]
Desc(c, i, name, type, tradable, marketable) ==
    [classid |-> Str(<<c>>), instanceid |-> Str(<<i>>), market_hash_name |-> name,
     type |-> type, tradable |-> tradable, marketable |-> marketable]
Item(id) ==
    [id |-> Num(id), original_id |-> Num(id), defindex |-> Num(7), level |-> Num(1),
     quality |-> Num(4), quantity |-> JUndefined]

FlowAssets == {Asset("1", "0", "100"), Asset("2", "0", "200")}
FlowDescriptions ==
    {<<>>, <<Desc("1", "0", Str(<<"AK-47 ", Q, "Redline", Q>>), Str(<<"Rifle">>), Num(1), Num(0))>>}
FlowItems == {Item(5)}

Inventory(kind, status, isNull, assets, descriptions, hasResult, resultStatus, items) ==
    [kind |-> kind, status |-> status, isNull |-> isNull, assets |-> assets,
     descriptions |-> descriptions, hasResult |-> hasResult,
     resultStatus |-> resultStatus, items |-> items]

NoInventory == Inventory("none", 0, FALSE, Absent, Absent, FALSE, 0, Absent)

Lists(S) == {Absent} \cup {Present(l) : l \in SeqsUpTo(S, MaxAssets)}

InventoryOutcomes ==
    {Inventory("network", 0, FALSE, Absent, Absent, FALSE, 0, Absent),
     Inventory("notjson", 200, FALSE, Absent, Absent, FALSE, 0, Absent),
     Inventory("json", 200, TRUE, Absent, Absent, FALSE, 0, Absent)}
    \cup {Inventory("json", st, FALSE, Absent, Absent, FALSE, 0, Absent) :
            st \in {403, 404, 410, 500}}
    \cup {Inventory("json", 200, FALSE, a, d, FALSE, 0, Absent) :
            a \in Lists(FlowAssets), d \in {Absent} \cup {Present(l) : l \in FlowDescriptions}}
    \cup {Inventory("json", 200, FALSE, Absent, Absent, TRUE, rs, i) :
            rs \in {1, 15}, i \in Lists(FlowItems)}

\* inventoryResponse.ok
Ok(o) == o.status >= 200 /\ o.status <= 299

\* ------------------------------------------------------------ the handler
AliasCall(id) ==
    [svc |-> "alias",
     url |-> <<"https://api.steampowered.com/ISteamUser/ResolveVanityURL/v1/?key=KEY&vanityurl=">>
             \o ToText(id),
     arg |-> ToText(id)]

InventoryCall(v, id) ==
    [svc |-> "inventory",
     url |-> IF v \in SnapshotVariants
             THEN <<"https://steamcommunity.com/inventory/">> \o ToText(id)
                  \o <<"/", ToString(CS2_APP_ID), "/2?l=english&count=5000">>
             ELSE <<"https://api.steampowered.com/IEconItems_730/GetPlayerItems/v1/?key=KEY&steamid=">>
                  \o ToText(id),
     arg |-> ToText(id)]

\* The handler's own state, as one record.
Locals ==
    [pc |-> pc, identifier |-> identifier, steamId |-> steamId, calls |-> calls,
     response |-> response, escaped |-> escaped, caught |-> caught,
     itemsForCSV |-> itemsForCSV]

\* return <response>
Respond(cur, r) == [cur EXCEPT !.pc = "done", !.response = r]

\* an exception thrown inside try: the catch block answers
Catch(cur, v, msg) ==
    [cur EXCEPT !.pc = "done", !.caught = msg, !.response = CatchResponse(v, msg)]

\* an exception thrown outside try: the promise POST returned rejects
Reject(cur) == [cur EXCEPT !.pc = "done", !.escaped = TRUE]

\* await fetch(<inventory url>)
FetchInventory(cur, v, id) ==
    [cur EXCEPT !.pc = "inv_wait", !.steamId = id,
                !.calls = Append(cur.calls, InventoryCall(v, id))]

\* await fetch(<alias lookup url>)
FetchAlias(cur, id) ==
    [cur EXCEPT !.pc = "alias_wait", !.calls = Append(cur.calls, AliasCall(id))]

\* vanityData.response.success !== 1 is false
LookupSucceededTruthy(o) == ~Falsy(o.success)

LookupSucceeded(o) == o.success = Num(1)

\* the branch on the identifier
Resolve(cur, v, id) ==
    IF v = "RouteSnapshot" /\ Falsy(id)
    THEN Respond(cur, JsonResponse(400, MsgNoIdentifier))
    ELSE IF IsCanonical(id) THEN FetchInventory(cur, v, id)
    ELSE IF ~Falsy(id) THEN FetchAlias(cur, id)
    ELSE Respond(cur, JsonResponse(400, MsgInvalidFormat))

\* From the call of POST to its first fetch or its response.
\* request.json() and the destructuring of its result are outside try.
StartStep(cur, v, key, b) ==
    IF b.kind \in {"invalid", "null"} THEN Reject(cur)
    ELSE IF ~key THEN Respond(cur, JsonResponse(500, MsgNoKey))
    ELSE IF Falsy(b.profileUrl) THEN Respond(cur, JsonResponse(400, MsgUrlRequired))
    ELSE LET r == extractIdentifier(v, b.profileUrl)
         IN  IF r.thrown THEN Catch(cur, v, r.msg)
             ELSE Resolve([cur EXCEPT !.identifier = r.v], v, r.v)

\* the alias lookup settles, were the 404 of a failed lookup not returned: the
\* handler goes on to the inventory fetch
AliasStepGoesOn(cur, v, o) ==
    IF o.kind = "network" THEN Catch(cur, v, <<"fetch failed">>)
    ELSE IF o.kind = "notjson"
    THEN Catch(cur, v, <<"Unexpected token < in JSON at position 0">>)
    ELSE IF ~o.hasResponse
    THEN Catch(cur, v, <<"Cannot read properties of undefined (reading 'success')">>)
    ELSE FetchInventory(cur, v, o.steamid)

\* The alias lookup settles: from there to the inventory fetch or the response.
AliasStep(cur, v, o) ==
    IF o.kind = "network" THEN Catch(cur, v, <<"fetch failed">>)
    ELSE IF o.kind = "notjson"
    THEN Catch(cur, v, <<"Unexpected token < in JSON at position 0">>)
    ELSE IF ~o.hasResponse
    THEN Catch(cur, v, <<"Cannot read properties of undefined (reading 'success')">>)
    ELSE IF ~LookupSucceeded(o) THEN Respond(cur, JsonResponse(404, MsgNoSteamId))
    ELSE FetchInventory(cur, v, o.steamid)

\* new Response(csvData, ...) for the rows
Deliver(cur, v, rows) ==
    [cur EXCEPT !.pc = "done", !.itemsForCSV = Present(rows),
                !.response = Download(convertToCSV(rows), FileName(v, cur.steamId))]

\* the rest of a snapshot revision, were an empty assets list not screened
SnapshotResultNoEmptyCheck(cur, v, o) ==
    IF o.isNull \/ ~o.assets.present \/ ~o.descriptions.present
    THEN Respond(cur, JsonResponse(404, MsgUnreadable))
    ELSE Deliver(cur, v, SnapshotRows(o.assets.list, o.descriptions.list))

\* the rest of a snapshot revision once the body is parsed
SnapshotResult(cur, v, o) ==
    IF o.isNull \/ ~o.assets.present \/ ~o.descriptions.present
    THEN Respond(cur, JsonResponse(404, MsgUnreadable))
    ELSE IF Len(o.assets.list) = 0
    THEN Respond(cur, JsonResponse(404, MsgEmpty))
    ELSE Deliver(cur, v, SnapshotRows(o.assets.list, o.descriptions.list))

\* the rest of a legacy revision once the body is parsed
LegacyResult(cur, v, o) ==
    IF o.isNull
    THEN Catch(cur, v, <<"Cannot read properties of null (reading 'result')">>)
    ELSE IF ~o.hasResult \/ o.resultStatus # 1
    THEN Respond(cur, JsonResponse(403, MsgPrivateOfficial))
    ELSE IF ~o.items.present \/ Len(o.items.list) = 0
    THEN Respond(cur, JsonResponse(404, MsgEmpty))
    ELSE Deliver(cur, v, LegacyRows(o.items.list))

\* The inventory fetch settles: from there to the response.
InventoryStep(cur, v, o) ==
    IF o.kind = "network" THEN Catch(cur, v, <<"fetch failed">>)
    ELSE IF ~Ok(o)
    THEN Respond(cur, JsonResponse(NotOkStatus(v, o.status), MsgNotOk(v, o.status)))
    ELSE IF o.kind = "notjson"
    THEN Catch(cur, v, <<"Unexpected token < in JSON at position 0">>)
    ELSE IF v \in SnapshotVariants THEN SnapshotResult(cur, v, o)
    ELSE LegacyResult(cur, v, o)

\* ------------------------------------------------------------- the requests
Idle ==
    /\ identifier = JUndefined
    /\ steamId = JUndefined
    /\ calls = <<>>
    /\ response = NoResponse
    /\ escaped = FALSE
    /\ caught = <<>>
    /\ vanityData = NoVanity
    /\ inventoryData = NoInventory
    /\ itemsForCSV = Absent

Init ==
    /\ variant \in Variants
    /\ keyConfigured \in BOOLEAN
    /\ body \in Bodies
    /\ pc = "start"
    /\ Idle
    /\ fin = <<>>
    /\ fout = <<>>

Becomes(n) ==
    /\ pc' = n.pc
    /\ identifier' = n.identifier
    /\ steamId' = n.steamId
    /\ calls' = n.calls
    /\ response' = n.response
    /\ escaped' = n.escaped
    /\ caught' = n.caught
    /\ itemsForCSV' = n.itemsForCSV
    /\ UNCHANGED <<variant, keyConfigured, body, fin, fout>>

Start ==
    /\ pc = "start"
    /\ Becomes(StartStep(Locals, variant, keyConfigured, body))
    /\ UNCHANGED <<vanityData, inventoryData>>

AliasLookupSettles ==
    /\ pc = "alias_wait"
    /\ \E o \in AliasOutcomes :
        /\ vanityData' = o
        /\ Becomes(AliasStep(Locals, variant, o))
    /\ UNCHANGED inventoryData

InventoryFetchSettles ==
    /\ pc = "inv_wait"
    /\ \E o \in InventoryOutcomes :
        /\ inventoryData' = o
        /\ Becomes(InventoryStep(Locals, variant, o))
    /\ UNCHANGED vanityData

Next ==
    \/ Start
    \/ AliasLookupSettles
    \/ InventoryFetchSettles

Spec == Init /\ [][Next]_vars

\* ------------------------------------------------- the functions taken alone
NoBody == [kind |-> "none", profileUrl |-> JUndefined]

InitAlone(start, inputs) ==
    /\ keyConfigured = TRUE
    /\ body = NoBody
    /\ pc = start
    /\ Idle
    /\ fin \in inputs

Applied(done, out) ==
    /\ pc' = done
    /\ fout' = out
    /\ UNCHANGED <<variant, keyConfigured, body, identifier, steamId, calls, response,
                   escaped, caught, vanityData, inventoryData, itemsForCSV, fin>>

\* extractIdentifier on every text, in every revision
InitExtract ==
    /\ variant \in Variants
    /\ InitAlone("extract", {Str(t) : t \in ExtractorInputs} \cup {Num(123)})
    /\ fout = Return(JUndefined)

Extract ==
    /\ pc = "extract"
    /\ Applied("extracted", extractIdentifier(variant, fin))

SpecExtract == InitExtract /\ [][Extract]_vars

\* convertToCSV on every list of rows of two columns
EncoderValues ==
    {Str(<<>>), Str(<<"a">>), Str(<<Q>>), Str(<<"a", Q>>), Str(<<Q, Q>>), Str(<<",">>),
     JUndefined, Num(7)}

EncoderRows ==
    {<<Field(<<"Item_Name">>, a), Field(<<"Type">>, b)>> : a \in EncoderValues, b \in EncoderValues}

InitEncode ==
    /\ variant = "RouteSnapshot"
    /\ InitAlone("encode", SeqsUpTo(EncoderRows, MaxRows))
    /\ fout = [fields |-> <<>>, text |-> <<>>]

Encode ==
    /\ pc = "encode"
    /\ Applied("encoded", [fields |-> CsvFields(fin), text |-> convertToCSV(fin)])

SpecEncode == InitEncode /\ [][Encode]_vars

\* the join on every pair of a list of holdings and a list of descriptions
JoinKeys == {<<"1", "1">>, <<"1_1", "1">>, <<"1", "1_1">>, <<"2", "1">>}

IdText(k) == IF k = "1_1" THEN <<"1", "_", "1">> ELSE <<k>>

JoinAssets ==
    {[classid |-> Str(IdText(k[1])), instanceid |-> Str(IdText(k[2])),
      assetid |-> Str(<<"9">>)] : k \in JoinKeys}

JoinDescriptions ==
    {[classid |-> Str(IdText(k[1])), instanceid |-> Str(IdText(k[2])),
      market_hash_name |-> n, type |-> Str(<<"Rifle">>),
      tradable |-> IF n = Str(<<>>) THEN Num(0) ELSE Num(1),
      marketable |-> IF n = Str(<<>>) THEN Num(1) ELSE Num(0)] :
        k \in JoinKeys \ {<<"2", "1">>}, n \in {Str(<<>>), Str(<<"AK-47">>)}}

InitJoin ==
    /\ variant \in SnapshotVariants
    /\ InitAlone("join",
                 [assets : SeqsUpTo(JoinAssets, MaxAssets),
                  descriptions : SeqsUpTo(JoinDescriptions, MaxDescriptions)])
    /\ fout = <<>>

JoinRows ==
    /\ pc = "join"
    /\ Applied("joined", SnapshotRows(fin.assets, fin.descriptions))

SpecJoin == InitJoin /\ [][JoinRows]_vars

\* ------------------------------------------------------------------ claims
\* a text of exactly 17 characters, each a decimal digit
RECURSIVE DigitsIn(_)
DigitsIn(text) ==
    IF text = <<>> THEN 0
    ELSE IF Head(text) \in {ID17, "7", "765"} THEN WordLen(Head(text)) + DigitsIn(Tail(text))
    ELSE -100
Is17Digits(text) == DigitsIn(text) = 17

TokenIsCanonical == identifier.t = "string" /\ Is17Digits(identifier.s)
TokenIsAlias ==
    identifier.t = "string" /\ identifier.s # <<>> /\ ~Is17Digits(identifier.s)

CallsTo(svc) == {i \in DOMAIN calls : calls[i].svc = svc}

\* C1: when the extracted token is exactly 17 decimal digits it is used
\* unchanged as the canonical identifier, no alias lookup is issued, and the
\* inventory fetch is the first and only external call, made with that token.
C1_CanonicalTokenShortCircuits ==
    TokenIsCanonical =>
        /\ steamId = identifier
        /\ Len(calls) = 1
        /\ calls[1].svc = "inventory"
        /\ calls[1].arg = identifier.s

C1_Witness ==
    /\ TokenIsCanonical
    /\ pc = "done"
    /\ response.status = 200
    /\ calls[1].arg = <<ID17>>

\* C2: when the extracted token is non-empty and not 17 decimal digits exactly
\* one alias lookup is issued, keyed by the token; if the lookup answers with a
\* success flag other than 1 the request ends with status 404 and the
\* resolution-failure message, and no inventory fetch is issued.
C2_AliasLookupOnceAndFailureIs404 ==
    TokenIsAlias =>
        /\ Cardinality(CallsTo("alias")) = 1
        /\ calls[1].svc = "alias"
        /\ calls[1].arg = identifier.s
        /\ (vanityData.kind = "json" /\ vanityData.hasResponse
                /\ vanityData.success # Num(1)) =>
              /\ pc = "done"
              /\ response.status = 404
              /\ response.kind = "json"
              /\ response.message = MsgNoSteamId
              /\ CallsTo("inventory") = {}

C2_Witness ==
    /\ TokenIsAlias
    /\ vanityData.kind = "json"
    /\ vanityData.hasResponse
    /\ vanityData.success = Num(42)
    /\ pc = "done"
    /\ response.status = 404

\* C3: the response status follows the inventory backend's HTTP outcome: 403
\* gives 403, 404 gives 404, 5xx or a network failure gives 500; in the legacy
\* revisions a 410 gives a message distinct from that of another upstream failure.
C3_StatusFollowsUpstreamOutcome ==
    (pc = "done" /\ inventoryData.kind # "none") =>
        /\ inventoryData.kind = "network" => response.status = 500
        /\ inventoryData.status = 403 => response.status = 403
        /\ inventoryData.status = 404 => response.status = 404
        /\ inventoryData.status >= 500 => response.status = 500
        /\ (variant \in LegacyVariants /\ inventoryData.status = 410) =>
              response.message # MsgNotOk(variant, 500)

\* the inventory fetch answered ok with a body of the expected shape
FetchSucceeded ==
    /\ inventoryData.kind = "json"
    /\ Ok(inventoryData)
    /\ ~inventoryData.isNull
    /\ IF variant \in SnapshotVariants
       THEN inventoryData.assets.present /\ inventoryData.descriptions.present
       ELSE inventoryData.hasResult /\ inventoryData.resultStatus = 1

HoldingsEmpty ==
    IF variant \in SnapshotVariants
    THEN inventoryData.assets.list = <<>>
    ELSE ~inventoryData.items.present \/ inventoryData.items.list = <<>>

\* C4: when the inventory fetch succeeds and the holdings are empty (no assets
\* in a snapshot revision, no or absent items in a legacy revision) the request
\* ends with status 404 and the empty-inventory message; no status-200 response
\* carries an empty document and convertToCSV is never given an empty row list.
C4_EmptyInventoryIs404 ==
    /\ (pc = "done" /\ FetchSucceeded /\ HoldingsEmpty) =>
          /\ response.status = 404
          /\ response.kind = "json"
          /\ response.message = MsgEmpty
    /\ response.status = 200 => response.content # <<>>
    /\ itemsForCSV.present => itemsForCSV.list # <<>>

C4_Witness ==
    /\ pc = "done"
    /\ variant \in SnapshotVariants
    /\ FetchSucceeded
    /\ HoldingsEmpty
    /\ response.status = 404

\* C5: every request ends in exactly one response, the status-200 download or
\* a failure with one message field and a status in {400, 403, 404, 500}; no
\* exception leaves the handler.
C5_EveryRequestIsAnswered ==
    pc = "done" =>
        /\ ~escaped
        /\ \/ response.kind = "csv" /\ response.status = 200
           \/ /\ response.kind = "json"
              /\ response.status \in {400, 403, 404, 500}
              /\ ~response.hasDetails

\* C6: a failure caused by a thrown exception carries the fixed message alone,
\* and no text taken from the exception.
C6_ExceptionTextNotExposed ==
    (pc = "done" /\ caught # <<>>) =>
        /\ response.message = MsgUnexpected
        /\ ~response.hasDetails
        /\ response.errorDetails = <<>>

\* C9: the identifier given to the inventory backend is always exactly 17
\* decimal digits, whether it is the extracted token or the alias lookup's answer.
C9_InventoryCallIsCanonical ==
    \A i \in CallsTo("inventory") : Is17Digits(calls[i].arg)

\* the quotes of a text come in pairs
RECURSIVE QuotesPaired(_)
QuotesPaired(t) ==
    IF t = <<>> THEN TRUE
    ELSE IF Head(t) = Q THEN Len(t) >= 2 /\ t[2] = Q /\ QuotesPaired(Tail(Tail(t)))
    ELSE QuotesPaired(Tail(t))

\* a text whose quotes come in pairs, each pair read as one quote
RECURSIVE Undoubled(_)
Undoubled(t) ==
    IF t = <<>> THEN <<>>
    ELSE IF Head(t) = Q THEN <<Q>> \o Undoubled(Tail(Tail(t)))
    ELSE <<Head(t)>> \o Undoubled(Tail(t))

Inner(f) == SubSeq(f, 2, Len(f) - 1)

\* a field wrapped in quotes, the quotes inside it doubled
Wrapped(f) == Len(f) >= 2 /\ f[1] = Q /\ f[Len(f)] = Q /\ QuotesPaired(Inner(f))

\* C7 as stated: in the document of a non-empty row list every field of every
\* line is wrapped in double quotes, the quotes inside it doubled.
C7_EveryFieldOfEveryLineQuoted ==
    (pc = "encoded" /\ fin # <<>>) =>
        \A i \in 1..Len(fout.fields) : \A j \in 1..Len(fout.fields[i]) :
            Wrapped(fout.fields[i][j])

\* C7, amended: in the document of a non-empty row list every field of every
\* row line (every line after the header line) is the text of the row's value
\* wrapped in double quotes with every quote inside it doubled; the header line
\* holds the column names of the first row as they are, without quotes.
C7_EveryRowFieldQuoted ==
    (pc = "encoded" /\ fin # <<>>) =>
        /\ Len(fout.fields) = Len(fin) + 1
        /\ fout.fields[1] = Keys(fin[1])
        /\ \A i \in 1..Len(fin) :
            /\ Len(fout.fields[i + 1]) = Len(fin[1])
            /\ \A j \in 1..Len(fin[1]) :
                /\ Wrapped(fout.fields[i + 1][j])
                /\ Undoubled(Inner(fout.fields[i + 1][j])) = ToText(fin[i][j].v)

C7_Witness ==
    /\ pc = "encoded"
    /\ Len(fin) = 2
    /\ fin[2][1].v = Str(<<Q, Q>>)
    /\ fout.fields[3][1] = <<Q, Q, Q, Q, Q, Q>>
    /\ fout.fields[1][1] = <<"Item_Name">>

\* no description has the holding's key text
Unmatched(asset, descriptions) ==
    \A k \in 1..Len(descriptions) :
        ToText(descriptions[k].classid) \o <<"_">> \o ToText(descriptions[k].instanceid)
            # ToText(asset.classid) \o <<"_">> \o ToText(asset.instanceid)

RowHas(row, column, text) == Get(row, <<column>>) = Str(<<text>>)

\* C8 as stated: every holding gives one row, and a holding whose key matches
\* no description gets "Unknown" as name and type, "No" as tradable and marketable.
C8_UnmatchedHoldingGetsUnknown ==
    pc = "joined" =>
        /\ Len(fout) = Len(fin.assets)
        /\ \A i \in 1..Len(fin.assets) :
            Unmatched(fin.assets[i], fin.descriptions) =>
                /\ RowHas(fout[i], "Item_Name", "Unknown")
                /\ RowHas(fout[i], "Type", "Unknown")
                /\ RowHas(fout[i], "Tradable", "No")
                /\ RowHas(fout[i], "Marketable", "No")

\* C8, amended: every holding gives one row, in the holdings' order and with
\* the holding's three ids, and a holding whose key text classid_instanceid is
\* that of no description gets "Unknown Item" as name, "Unknown" as type and
\* "No" as tradable and marketable.
C8_UnmatchedHoldingGetsDefaults ==
    pc = "joined" =>
        /\ Len(fout) = Len(fin.assets)
        /\ \A i \in 1..Len(fin.assets) :
            /\ Get(fout[i], <<"Class_ID">>) = fin.assets[i].classid
            /\ Get(fout[i], <<"Instance_ID">>) = fin.assets[i].instanceid
            /\ Get(fout[i], <<"Asset_ID">>) = fin.assets[i].assetid
            /\ Unmatched(fin.assets[i], fin.descriptions) =>
                /\ RowHas(fout[i], "Item_Name", "Unknown Item")
                /\ RowHas(fout[i], "Type", "Unknown")
                /\ RowHas(fout[i], "Tradable", "No")
                /\ RowHas(fout[i], "Marketable", "No")

C8_Witness ==
    /\ pc = "joined"
    /\ Len(fin.assets) = 2
    /\ Len(fin.descriptions) = 2
    /\ Unmatched(fin.assets[2], fin.descriptions)
    /\ ~Unmatched(fin.assets[1], fin.descriptions)
    /\ RowHas(fout[2], "Item_Name", "Unknown Item")
    /\ RowHas(fout[1], "Item_Name", "AK-47")

\* the segments of a reference, trimmed and without one trailing separator
SegmentsOf(url) == Split(DropTrailingSlash(Trim(url.s)))

IsMarker(seg) == seg = <<"profiles">> \/ seg = <<"id">>

Least(S) == CHOOSE i \in S : \A j \in S : i <= j
Greatest(S) == CHOOSE i \in S : \A j \in S : i >= j

\* C10 as stated: the extractor returns the segment after the last "profiles"
\* or "id" segment when there is one, and the final non-empty segment otherwise.
C10_SegmentAfterLastMarker ==
    (pc = "extracted" /\ IsString(fin)) =>
        LET parts == SegmentsOf(fin)
            markers == {i \in 1..Len(parts) : IsMarker(parts[i])}
            filled == {i \in 1..Len(parts) : parts[i] # <<>>}
        IN  /\ ~fout.thrown
            /\ (markers # {} /\ Greatest(markers) < Len(parts)) =>
                  fout.v = Str(parts[Greatest(markers) + 1])
            /\ (markers = {} /\ filled # {}) => fout.v = Str(parts[Greatest(filled)])

\* the text after the last separator of a text
IsLastSegment(seg, text) ==
    /\ \A k \in 1..Len(seg) : seg[k] # "/"
    /\ Len(seg) <= Len(text)
    /\ SubSeq(text, Len(text) - Len(seg) + 1, Len(text)) = seg
    /\ Len(seg) < Len(text) => text[Len(text) - Len(seg)] = "/"

\* C10, amended: the marker-based extractor (route.js, second handler) trims
\* the reference, drops one trailing separator and splits; it returns the
\* segment after the first "profiles" segment that is not the final segment,
\* else the segment after the first "id" segment that is not the final segment,
\* else the final segment, empty or not.  The URL-based extractor of the other
\* revisions returns the second non-empty path segment of a reference that
\* parses as a URL (null when it has fewer than two), and of any other
\* reference the text after its last separator, untrimmed.
C10_ExtractorAsWritten ==
    (pc = "extracted" /\ IsString(fin)) =>
        /\ ~fout.thrown
        /\ IF variant = "RouteSnapshot"
           THEN LET parts == SegmentsOf(fin)
                    followed(w) == {i \in 1..(Len(parts) - 1) : parts[i] = <<w>>}
                IN  fout.v = IF followed("profiles") # {}
                                 THEN Str(parts[Least(followed("profiles")) + 1])
                             ELSE IF followed("id") # {}
                                 THEN Str(parts[Least(followed("id")) + 1])
                             ELSE Str(parts[Len(parts)])
           ELSE IF UrlParses(fin.s)
           THEN LET filled == NonEmpty(Split(Pathname(fin.s)))
                IN  fout.v = IF Len(filled) >= 2 THEN Str(filled[2]) ELSE JNull
           ELSE IsString(fout.v) /\ IsLastSegment(fout.v.s, fin.s)

C10_Witness ==
    /\ pc = "extracted"
    /\ variant = "RouteSnapshot"
    /\ fin = Str(<<"profiles", "/", "myalias", "/", "id", "/", ID17>>)
    /\ fout = Return(Str(<<"myalias">>))

\* the request carries no reference: no body that parses to an object, or no
\* profileUrl in it (absent, null or empty)
ReferenceMissing == body.kind # "object" \/ Falsy(body.profileUrl)

\* the extractor ran and found no token: null or the empty text
NoneFound == identifier = JNull \/ identifier = Str(<<>>)

\* C11: a request without backend key is answered 500; with the key, a
\* request whose reference is missing or whose extracted token is null or
\* empty is answered 400; in all these cases no external call is issued.
C11_RejectedBeforeAnyCall ==
    pc = "done" =>
        /\ ~keyConfigured => (response.status = 500 /\ calls = <<>>)
        /\ (keyConfigured /\ (ReferenceMissing \/ NoneFound)) =>
              (response.status = 400 /\ calls = <<>>)

\* the alias lookup answered with the success flag 1
AliasSucceeded ==
    vanityData.kind = "json" /\ vanityData.hasResponse /\ vanityData.success = Num(1)

\* C12: the external calls of a request are sequential and never repeated: at
\* most one alias lookup and at most one inventory fetch, the alias lookup
\* first; the inventory fetch follows an alias lookup only once that lookup
\* has answered with success; a step that fails (an exception in the pipeline,
\* a failed lookup, a failed or empty inventory answer) ends the request with
\* an error response, and an ended request issues no further call.
C12_CallsSequentialNeverRepeated ==
    /\ Cardinality(CallsTo("alias")) <= 1
    /\ Cardinality(CallsTo("inventory")) <= 1
    /\ \A i \in CallsTo("alias") : i = 1
    /\ (CallsTo("alias") # {} /\ CallsTo("inventory") # {}) =>
          /\ calls[2].svc = "inventory"
          /\ AliasSucceeded
    /\ caught # <<>> => (pc = "done" /\ response.status = 500)
    /\ (vanityData.kind # "none" /\ ~AliasSucceeded) =>
          /\ pc = "done"
          /\ response.kind = "json"
          /\ response.status \in {404, 500}
          /\ CallsTo("inventory") = {}
    /\ inventoryData.kind # "none" =>
          /\ pc = "done"
          /\ response.status # 200 =>
                (response.kind = "json" /\ response.status \in {403, 404, 500})
    /\ pc = "done" => ~ENABLED Next

C12_Witness ==
    /\ pc = "done"
    /\ Len(calls) = 2
    /\ calls[1].svc = "alias"
    /\ calls[2].svc = "inventory"
    /\ AliasSucceeded
    /\ inventoryData.kind = "network"
    /\ response.status = 500

====
